---- MODULE Spec2Model ----
(***************************************************************************)
(* Model of generate_data.py: the identifier allocator (find_new_ids), the *)
(* dataset reader (read_all_data), the integrity validator                 *)
(* (check_data_integrity), the parallel rewrite (rewrite_csv_parallel,     *)
(* rewrite_csv_task) and the chunked export (write_clean_csv), driven by   *)
(* generate_and_append_datasets.                                           *)
(*                                                                         *)
(* Text is modelled as a sequence of one-character strings, so that        *)
(* str.strip, int() and str() are computed and not assumed.  A CSV file is *)
(* a header (sequence of column names) and a sequence of lines, each line  *)
(* a sequence of cell texts.  The fourth column of each dataset            *)
(* ('Credit Score' / 'Account Status') is carried like any other cell.     *)
(***************************************************************************)
EXTENDS Integers, Sequences, FiniteSets, TLC

\* ------------------------------------------------------------------ bounds
MaxNew == 2          \* largest number of records requested in one call
MaxUsedId == 4       \* largest identifier in an allocator input set
MinUsedId == 2       \* allocator input sets reach down to -MinUsedId
MaxAdd == 1          \* largest number of records one pipeline run adds
MaxRuns == 2         \* pipeline runs in one behaviour
MaxLines == 2        \* data lines of the two initial files together
MaxFaults == 1       \* storage faults injected in one behaviour
MaxCheckRows == 3    \* rows handed to the validator, both datasets together
MaxReadLines == 2    \* data lines of a file handed to the reader

\* ------------------------------------------------------- program constants
CHUNK_SIZE == 100

USER_FILE == "credit_scores.csv"
ACCOUNT_FILE == "account_status.csv"
USER_FIELDS == <<"ID", "Name", "Email", "Credit Score">>
ACCOUNT_FIELDS == <<"ID", "Name", "Email", "Account Status">>
CLEAN_USER_FIELDS == <<"Name", "Credit Score">>
CLEAN_ACCOUNT_FIELDS == <<"Name", "Account Status">>

Datasets == {USER_FILE, ACCOUNT_FILE}
FieldsOf(d) == IF d = USER_FILE THEN USER_FIELDS ELSE ACCOUNT_FIELDS
CleanFieldsOf(d) == IF d = USER_FILE THEN CLEAN_USER_FIELDS ELSE CLEAN_ACCOUNT_FIELDS

\* ------------------------------------------------------------ text helpers
Digits == {"0", "1", "2", "3", "4", "5", "6", "7", "8", "9"}

DigitVal(c) ==
  CASE c = "0" -> 0 [] c = "1" -> 1 [] c = "2" -> 2 [] c = "3" -> 3
    [] c = "4" -> 4 [] c = "5" -> 5 [] c = "6" -> 6 [] c = "7" -> 7
    [] c = "8" -> 8 [] c = "9" -> 9

DigitChar(n) ==
  CASE n = 0 -> "0" [] n = 1 -> "1" [] n = 2 -> "2" [] n = 3 -> "3"
    [] n = 4 -> "4" [] n = 5 -> "5" [] n = 6 -> "6" [] n = 7 -> "7"
    [] n = 8 -> "8" [] n = 9 -> "9"

RECURSIVE LStrip(_)
LStrip(s) == IF s # <<>> /\ Head(s) = " " THEN LStrip(Tail(s)) ELSE s

RECURSIVE RStrip(_)
RStrip(s) ==
  IF s # <<>> /\ s[Len(s)] = " " THEN RStrip(SubSeq(s, 1, Len(s) - 1)) ELSE s

\* str.strip() over the alphabet of the model (the only whitespace is " ")
Strip(s) == RStrip(LStrip(s))

\* int(text) succeeds: after trimming, a non-empty run of digits (the model's
\* alphabet has no sign and no underscore)
IsInt(s) == LET t == Strip(s) IN t # <<>> /\ \A i \in DOMAIN t : t[i] \in Digits

RECURSIVE DigitsVal(_)
DigitsVal(t) ==
  IF t = <<>> THEN 0
  ELSE 10 * DigitsVal(SubSeq(t, 1, Len(t) - 1)) + DigitVal(t[Len(t)])

\* int(text), defined where IsInt(text)
IntOf(s) == DigitsVal(Strip(s))

\* str(n) for n >= 0, as csv.DictWriter renders an integer cell
RECURSIVE StrOf(_)
StrOf(n) == IF n < 10 THEN <<DigitChar(n)>> ELSE StrOf(n \div 10) \o <<DigitChar(n % 10)>>

\* ---------------------------------------------------------- list helpers
Max(S) == CHOOSE m \in S : \A x \in S : x <= m

Take(s, k) == SubSeq(s, 1, IF k < Len(s) THEN k ELSE Len(s))

RECURSIVE Ascending(_)
Ascending(S) ==
  IF S = {} THEN <<>>
  ELSE LET m == CHOOSE x \in S : \A y \in S : x <= y IN <<m>> \o Ascending(S \ {m})

RECURSIVE InsertInt(_, _)
\* place x after every element that is <= x
InsertInt(x, s) ==
  IF s = <<>> THEN <<x>>
  ELSE IF s[Len(s)] <= x THEN Append(s, x)
  ELSE Append(InsertInt(x, SubSeq(s, 1, Len(s) - 1)), s[Len(s)])

RECURSIVE SortInts(_)
\* list.sort() on a list of integers
SortInts(s) ==
  IF s = <<>> THEN <<>>
  ELSE InsertInt(s[Len(s)], SortInts(SubSeq(s, 1, Len(s) - 1)))

\* ------------------------------------------------------- find_new_ids
\* the sequential run started at max_id instead of max_id + 1
find_new_ids_from_max(num_records, combined_existing_ids) ==
  IF combined_existing_ids = {} THEN [i \in 1..num_records |-> i]
  ELSE
    LET max_id == Max(combined_existing_ids)
        gap_ids == Ascending({i \in 1..(max_id - 1) : i \notin combined_existing_ids})
        taken == Take(gap_ids, num_records)
        num_sequential == num_records - Len(taken)
    IN SortInts(taken \o [k \in 1..num_sequential |-> max_id + k - 1])

\* the gaps ignored: every identifier taken above max_id
find_new_ids_no_gaps(num_records, combined_existing_ids) ==
  IF combined_existing_ids = {} THEN [i \in 1..num_records |-> i]
  ELSE [k \in 1..num_records |-> Max(combined_existing_ids) + k]

find_new_ids(num_records, combined_existing_ids) ==
  IF combined_existing_ids = {} THEN [i \in 1..num_records |-> i]
  ELSE
    LET max_id == Max(combined_existing_ids)
        gap_ids == Ascending({i \in 1..(max_id - 1) : i \notin combined_existing_ids})
        taken == Take(gap_ids, num_records)
        num_sequential == num_records - Len(taken)
        new_ids == IF Len(taken) < num_records
                   THEN taken \o [k \in 1..num_sequential |-> max_id + k]
                   ELSE taken
    IN SortInts(new_ids)

\* ------------------------------------------------------- read_all_data
\* k.strip() on the column names the model uses
StripKey(k) ==
  CASE k = " ID" -> "ID"
    [] k = " " -> ""
    [] OTHER -> k

\* the dictionary keys line 175 keeps: trimmed, empty names dropped
KeysOf(header) == {StripKey(header[i]) : i \in 1..Len(header)} \ {""}

\* csv.DictReader fills the cells a short line lacks with None, and line 175
\* calls None.strip() for every kept column: AttributeError
RowRaises(header, line) ==
  \E i \in 1..Len(header) : i > Len(line) /\ StripKey(header[i]) # ""

\* the last column carrying the name k (a later duplicate overwrites)
LastIdx(header, k) == Max({i \in 1..Len(header) : StripKey(header[i]) = k})

\* line 175: the cleaned row dictionary of one line
CleanRow(header, line) ==
  [k \in KeysOf(header) |-> Strip(line[LastIdx(header, k)])]

\* row.get(key, '')
Get(row, key) == IF key \in DOMAIN row THEN row[key] ELSE <<>>

\* iterating the reader (line 173) raises UnicodeDecodeError on such a line
LineUndecodable(line) == \E i \in 1..Len(line) : line[i] = <<"\\xff">>

\* csv.DictReader skips a line that holds nothing
BlankLine(line) == line = <<>> \/ line = << <<>> >>

NoData == [rows |-> <<>>, ids |-> {}, invalid |-> <<>>]

RECURSIVE ReadRows(_, _, _, _)
\* the loop of lines 173-186 from line i on; an exception raised inside it is
\* caught at line 188 and whatever was accumulated so far is returned
ReadRows(filename, f, i, acc) ==
  IF i > Len(f.lines) THEN acc
  ELSE IF BlankLine(f.lines[i]) THEN ReadRows(filename, f, i + 1, acc)
  ELSE IF LineUndecodable(f.lines[i]) \/ RowRaises(f.header, f.lines[i]) THEN acc
  ELSE
    LET row == CleanRow(f.header, f.lines[i]) IN
    IF IsInt(Get(row, "ID"))
    THEN ReadRows(filename, f, i + 1,
                  [acc EXCEPT !.ids = @ \cup {IntOf(Get(row, "ID"))},
                              !.rows = Append(@, row)])
    ELSE ReadRows(filename, f, i + 1,
                  [acc EXCEPT !.invalid = Append(@,
                     [file |-> filename, row_data |-> row,
                      reason |-> IF "ID" \notin DOMAIN row THEN "Missing ID"
                                 ELSE "Non-integer ID"])])

\* read_all_data; open_fails: open() at line 166 raises (unreadable file)
read_all_data(filename, f, open_fails) ==
  IF ~f.exists THEN NoData
  ELSE IF open_fails THEN NoData
  ELSE IF f.header = <<>> THEN NoData
  ELSE ReadRows(filename, f, 1, NoData)

\* ------------------------------------------------ check_data_integrity
\* position of record_id in the insertion-ordered dictionary, 0 if absent
MapIdx(map, record_id) ==
  IF \E i \in 1..Len(map) : map[i].key = record_id
  THEN CHOOSE i \in 1..Len(map) : map[i].key = record_id
  ELSE 0

\* user_data_map[record_id] = value (an existing key keeps its position)
MapPut(map, record_id, value) ==
  LET i == MapIdx(map, record_id) IN
  IF i = 0 THEN Append(map, [key |-> record_id, val |-> value])
  ELSE [map EXCEPT ![i].val = value]

\* the matched identifier left in the dictionary
MapDel_keep(map, record_id) == map

\* del user_data_map[record_id]
MapDel(map, record_id) ==
  LET i == MapIdx(map, record_id) IN
  SubSeq(map, 1, i - 1) \o SubSeq(map, i + 1, Len(map))

\* int(row['ID']), row['Name'], row['Email'] all succeed
RowUsable(row) ==
  /\ "ID" \in DOMAIN row /\ IsInt(row["ID"])
  /\ "Name" \in DOMAIN row
  /\ "Email" \in DOMAIN row

RECURSIVE BuildUserMap(_, _, _)
\* lines 83-92
BuildUserMap(user_rows, i, map) ==
  IF i > Len(user_rows) THEN map
  ELSE IF ~RowUsable(user_rows[i]) THEN BuildUserMap(user_rows, i + 1, map)
  ELSE BuildUserMap(user_rows, i + 1,
         MapPut(map, IntOf(user_rows[i]["ID"]),
                [Name |-> user_rows[i]["Name"], Email |-> user_rows[i]["Email"]]))

\* lines 107-125: the findings of one matched account row
Mismatches(record_id, user, row) ==
  (IF user.Name # row["Name"]
   THEN <<[ID |-> record_id, Field |-> "Name", UserValue |-> user.Name,
           AccountValue |-> row["Name"], Issue |-> "Name Mismatch"]>>
   ELSE <<>>)
  \o
  (IF user.Email # row["Email"]
   THEN <<[ID |-> record_id, Field |-> "Email", UserValue |-> user.Email,
           AccountValue |-> row["Email"], Issue |-> "Email Mismatch"]>>
   ELSE <<>>)

RECURSIVE CheckAccounts(_, _, _, _)
\* lines 97-131; the result is the map left over and the findings so far
CheckAccounts(account_rows, i, map, found) ==
  IF i > Len(account_rows) THEN [map |-> map, found |-> found]
  ELSE IF ~RowUsable(account_rows[i])
       THEN CheckAccounts(account_rows, i + 1, map, found)
  ELSE
    LET record_id == IntOf(account_rows[i]["ID"])
        j == MapIdx(map, record_id)
    IN IF j = 0 THEN CheckAccounts(account_rows, i + 1, map, found)
       ELSE CheckAccounts(account_rows, i + 1, MapDel(map, record_id),
              found \o Mismatches(record_id, map[j].val, account_rows[i]))

\* lines 134-141
MissingFindings(map) ==
  [i \in 1..Len(map) |->
     [ID |-> map[i].key, Field |-> "ID", UserValue |-> map[i].val.Name,
      AccountValue |-> <<"N", "/", "A">>, Issue |-> "Missing match"]]

\* check_data_integrity: the list `inconsistencies` it prints
check_data_integrity(user_rows, account_rows) ==
  LET user_data_map == BuildUserMap(user_rows, 1, <<>>)
      r == CheckAccounts(account_rows, 1, user_data_map, <<>>)
  IN r.found \o MissingFindings(r.map)

\* ------------------------------------------------------ generate_new_rows
\* lines 246-258: one Primary and one Secondary row for record_id, sharing
\* the identifier, the name and the e-mail the synthesizer drew
NewUserRow(record_id, person) ==
  [k \in {"ID", "Name", "Email", "Credit Score"} |->
     IF k = "ID" THEN StrOf(record_id)
     ELSE IF k = "Name" THEN person.Name
     ELSE IF k = "Email" THEN person.Email
     ELSE person.Score]

NewAccountRow(record_id, person) ==
  [k \in {"ID", "Name", "Email", "Account Status"} |->
     IF k = "ID" THEN StrOf(record_id)
     ELSE IF k = "Name" THEN person.Name
     ELSE IF k = "Email" THEN person.Email
     ELSE person.Status]

\* generate_new_rows; people[i] is what faker and random drew for new_ids[i]
generate_new_rows(d, new_ids, people) ==
  [i \in 1..Len(new_ids) |->
     IF d = USER_FILE THEN NewUserRow(new_ids[i], people[i])
     ELSE NewAccountRow(new_ids[i], people[i])]

\* ------------------------------------------------------ rewrite_csv_task
\* the sort key of line 272
RowKey(row) == IntOf(row["ID"])

\* the mutant of InsertRow: equal keys placed before, not after
InsertRow_unstable(x, s) ==
  LET before == {i \in 1..Len(s) : RowKey(s[i]) < RowKey(x)}
      k == IF before = {} THEN 0 ELSE Max(before)
  IN SubSeq(s, 1, k) \o <<x>> \o SubSeq(s, k + 1, Len(s))

\* place x after every row whose key is <= key(x); s is sorted
InsertRow(x, s) ==
  LET notafter == {i \in 1..Len(s) : RowKey(s[i]) <= RowKey(x)}
      k == IF notafter = {} THEN 0 ELSE Max(notafter)
  IN SubSeq(s, 1, k) \o <<x>> \o SubSeq(s, k + 1, Len(s))

RECURSIVE SortRows(_)
\* all_rows.sort(key=lambda row: int(row['ID'])): ascending, stable
SortRows(s) ==
  IF s = <<>> THEN <<>>
  ELSE InsertRow(s[Len(s)], SortRows(SubSeq(s, 1, Len(s) - 1)))

\* csv.DictWriter: the cells of one row in field order, '' for a missing key
RenderRow(fieldnames, row) ==
  [i \in 1..Len(fieldnames) |-> Get(row, fieldnames[i])]

\* csv.DictWriter with extrasaction='raise' (the default): ValueError
HasExtras(fieldnames, row) ==
  \E k \in DOMAIN row : \A i \in 1..Len(fieldnames) : fieldnames[i] # k

\* how many rows writerows puts out before it raises (all, if it does not)
WrittenCount(fieldnames, rows) ==
  LET bad == {i \in 1..Len(rows) : HasExtras(fieldnames, rows[i])} IN
  IF bad = {} THEN Len(rows)
  ELSE (CHOOSE i \in bad : \A j \in bad : i <= j) - 1

\* the file as lines 274-278 leave it after k rows went out
WrittenFile(fieldnames, rows, k) ==
  [exists |-> TRUE, header |-> fieldnames,
   lines |-> [i \in 1..k |-> RenderRow(fieldnames, rows[i])]]

\* open(filename, 'w'): the file exists and holds nothing
Truncated == [exists |-> TRUE, header |-> <<>>, lines |-> <<>>]

\* ------------------------------------------------------- write_clean_csv
\* the part files written for all_rows: contiguous slices of chunk_size rows
\* numbered from 1, each with the reduced header; `rows` keeps the slice the
\* lines were rendered from
write_clean_csv(clean_fieldnames, all_rows, chunk_size) ==
  LET total_records == Len(all_rows)
      nparts == (total_records + chunk_size - 1) \div chunk_size
  IN [p \in 1..nparts |->
        LET lo == (p - 1) * chunk_size + 1
            hi == IF p * chunk_size < total_records THEN p * chunk_size
                  ELSE total_records
            chunk == SubSeq(all_rows, lo, hi)
        IN [file_index |-> p, header |-> clean_fieldnames, rows |-> chunk,
            lines |-> [i \in 1..Len(chunk) |->
                         RenderRow(clean_fieldnames, chunk[i])]]]

\* line 317: the identifiers in use across both datasets
\* (mutant: the Secondary identifiers forgotten)
combined_ids_user_only(user_ids, account_ids) == user_ids

combined_ids(user_ids, account_ids) == user_ids \cup account_ids

\* pool.map returns (or raises) once every task has finished
\* (mutant: it gives up at the first failure and the pool is torn down)
AllFinished_first_error(t) ==
  \/ \E d \in DOMAIN t : t[d].st = "failed"
  \/ \A d \in DOMAIN t : t[d].st = "done"

AllFinished(t) == \A d \in DOMAIN t : t[d].st \in {"done", "failed"}

VARIABLES
  files,       \* the two dataset files on disk
  files0,      \* the files as they stood before the first run
  startFiles,  \* the files as they stood when the current run began
  pc,          \* "idle", "rewrite" (tasks dispatched, pool.map pending), "off"
  runs,        \* completed pipeline runs
  faults,      \* storage faults injected so far
  log,         \* per run: the count requested and the faults injected (read, write)
  existing,    \* per dataset: what read_all_data returned in this run
  new_ids,     \* the identifiers allocated in this run
  all_rows,    \* per dataset: the caller's list existing_rows + new_rows
  findings,    \* what check_data_integrity reported in this run
  task,        \* per dataset: the rewrite task, its state and its own rows
  clean,       \* per dataset: the part files of the chunked export
  reported,    \* rewrite_csv_parallel printed "An error occurred ..."
  call,        \* the arguments of a function checked on its own
  ret          \* its result

pipeVars == <<files, files0, startFiles, pc, runs, faults, log, existing,
              new_ids, all_rows, findings, task, clean, reported>>

vars == <<files, files0, startFiles, pc, runs, faults, log, existing,
          new_ids, all_rows, findings, task, clean, reported, call, ret>>

Absent == [exists |-> FALSE, header |-> <<>>, lines |-> <<>>]
NoTask == [st |-> "none", rows |-> <<>>]

\* the pipeline switched off, for the functions checked on their own
PipeOff ==
  /\ files = [d \in Datasets |-> Absent]
  /\ files0 = files
  /\ startFiles = files
  /\ pc = "off"
  /\ runs = 0
  /\ faults = 0
  /\ log = <<>>
  /\ existing = [d \in Datasets |-> NoData]
  /\ new_ids = <<>>
  /\ all_rows = [d \in Datasets |-> <<>>]
  /\ findings = <<>>
  /\ task = [d \in Datasets |-> NoTask]
  /\ clean = [d \in Datasets |-> <<>>]
  /\ reported = FALSE

NotRun == [done |-> FALSE]

\* ------------------------------------------- allocator, checked on its own
InitAlloc ==
  /\ call \in [op : {"find_new_ids"}, n : 0..MaxNew,
               ids : SUBSET ((0 - MinUsedId)..MaxUsedId)]
  /\ ret = NotRun
  /\ PipeOff

Allocate ==
  /\ call.op = "find_new_ids"
  /\ ret.done = FALSE
  /\ ret' = [done |-> TRUE, ids |-> find_new_ids(call.n, call.ids)]
  /\ UNCHANGED call
  /\ UNCHANGED pipeVars

NextAlloc == Allocate

SpecAlloc == InitAlloc /\ [][NextAlloc]_vars

\* ---------------------------------------------- reader, checked on its own
Undecodable == << <<"\\xff">> >>   \* a line whose bytes are not valid UTF-8

ReadHeaders == {USER_FIELDS, <<" ID", "Name", " ", "Credit Score">>,
                <<"Name", "Email", "Credit Score">>}
ReadIdTexts == {<<"1">>, <<" ", "2">>, <<"x">>, <<>>}
ReadNames == {<<"A">>, <<"A", " ">>}

\* full lines (four cells), short lines (the identifier only), bad bytes
ReadLinesSet ==
  {<<id, nm, <<"e">>, <<"7">>>> : id \in ReadIdTexts, nm \in ReadNames}
  \cup {<<id>> : id \in ReadIdTexts \ {<<>>}}
  \cup {Undecodable}

SeqsUpTo(S, n) == UNION {[1..k -> S] : k \in 0..n}

InitRead ==
  /\ call \in [op : {"read_all_data"},
               f : [exists : {TRUE}, header : ReadHeaders,
                    lines : SeqsUpTo(ReadLinesSet, MaxReadLines)],
               open_fails : BOOLEAN]
  /\ ret = NotRun
  /\ PipeOff

Read ==
  /\ call.op = "read_all_data"
  /\ ret.done = FALSE
  /\ ret' = [done |-> TRUE,
             out |-> read_all_data(USER_FILE, call.f, call.open_fails)]
  /\ UNCHANGED call
  /\ UNCHANGED pipeVars

NextRead == Read

SpecRead == InitRead /\ [][NextRead]_vars

\* ------------------------------------------- validator, checked on its own
\* rows as the reader returns them: every row of one dataset has the columns
\* of that dataset's header, every identifier is an integer text
CheckKeySets == {{"ID", "Name", "Email"}, {"ID", "Name"}}
CheckIdTexts == {<<"5">>, <<"0", "5">>, <<"7">>}
CheckTexts == {<<"A">>, <<"B">>}

CheckRows(keys) ==
  {[k \in keys |-> IF k = "ID" THEN id ELSE IF k = "Name" THEN nm ELSE em] :
     id \in CheckIdTexts, nm \in CheckTexts, em \in CheckTexts}

InitCheck ==
  \E ku \in CheckKeySets, ka \in CheckKeySets :
    \E nu \in 0..MaxCheckRows :
      \E na \in 0..(MaxCheckRows - nu) :
        /\ call \in [op : {"check_data_integrity"},
                     user_rows : [1..nu -> CheckRows(ku)],
                     account_rows : [1..na -> CheckRows(ka)]]
        /\ ret = NotRun
        /\ PipeOff

Check ==
  /\ call.op = "check_data_integrity"
  /\ ret.done = FALSE
  /\ ret' = [done |-> TRUE,
             inconsistencies |->
               check_data_integrity(call.user_rows, call.account_rows)]
  /\ UNCHANGED call
  /\ UNCHANGED pipeVars

NextCheck == Check

SpecCheck == InitCheck /\ [][NextCheck]_vars

\* ------------------------------------------------------------ the pipeline
OtherCell(col) ==
  IF col = "Name" THEN <<"A">> ELSE IF col = "Email" THEN <<"e">> ELSE <<"7">>

\* a full line under a header: id in the ID column
MkLine(header, id) ==
  [i \in 1..Len(header) |-> IF header[i] = "ID" THEN id ELSE OtherCell(header[i])]

PipeIdTexts == {<<"1">>, <<"3">>, <<"0", "3">>, <<"x">>}
ShortLine == << <<"4">> >>   \* fewer cells than the header has columns

PipeHeaders(d) ==
  IF d = USER_FILE
  THEN {FieldsOf(d), FieldsOf(d) \o <<"Note">>, <<"ID", FieldsOf(d)[4]>>}
  ELSE {FieldsOf(d)}

PipeFiles(d, n) ==
  {Absent} \cup
  UNION {[exists : {TRUE}, header : {h},
          lines : SeqsUpTo({MkLine(h, id) : id \in PipeIdTexts} \cup {ShortLine}, n)] :
         h \in PipeHeaders(d)}

\* what faker and random may draw for one new record
GenPeople ==
  {[Name |-> <<"B">>, Email |-> <<"f">>, Score |-> <<"8">>, Status |-> <<"g">>]}

Init ==
  /\ call = [op |-> "pipeline"]
  /\ ret = NotRun
  /\ \E fu \in PipeFiles(USER_FILE, MaxLines) :
       \E fa \in PipeFiles(ACCOUNT_FILE, MaxLines - Len(fu.lines)) :
         files = [d \in Datasets |-> IF d = USER_FILE THEN fu ELSE fa]
  /\ files0 = files
  /\ startFiles = files
  /\ pc = "idle"
  /\ runs = 0
  /\ faults = 0
  /\ log = <<>>
  /\ existing = [d \in Datasets |-> NoData]
  /\ new_ids = <<>>
  /\ all_rows = [d \in Datasets |-> <<>>]
  /\ findings = <<>>
  /\ task = [d \in Datasets |-> NoTask]
  /\ clean = [d \in Datasets |-> <<>>]
  /\ reported = FALSE

\* generate_and_append_datasets(num_records), lines 303-333 and the dispatch
\* of line 289: both files read, the integrity check, the allocation, the
\* synthesis, the two lists, one task per file handed to the pool (each task
\* receives its own pickled copy of its list).  open_fails: the files whose
\* open() for reading raises.
Begin(num_records, open_fails, people) ==
  /\ pc = "idle"
  /\ runs < MaxRuns
  /\ faults + Cardinality(open_fails) <= MaxFaults
  /\ existing' = [d \in Datasets |-> read_all_data(d, files[d], d \in open_fails)]
  /\ findings' = check_data_integrity(existing'[USER_FILE].rows,
                                      existing'[ACCOUNT_FILE].rows)
  /\ new_ids' = find_new_ids(num_records,
                   combined_ids(existing'[USER_FILE].ids, existing'[ACCOUNT_FILE].ids))
  /\ all_rows' = [d \in Datasets |->
                    existing'[d].rows \o generate_new_rows(d, new_ids', people)]
  /\ task' = [d \in Datasets |-> [st |-> "queued", rows |-> all_rows'[d]]]
  /\ startFiles' = files
  /\ faults' = faults + Cardinality(open_fails)
  /\ log' = Append(log, [n |-> num_records, rfault |-> open_fails, wfault |-> {}])
  /\ pc' = "rewrite"
  /\ reported' = FALSE
  /\ UNCHANGED <<files, files0, runs, clean, call, ret>>

\* rewrite_csv_task, lines 270-274: the worker sorts its own copy of the
\* list, then opens the target for writing, which truncates it
TaskOpen(d) ==
  /\ pc = "rewrite"
  /\ task[d].st = "queued"
  /\ task' = [task EXCEPT ![d] = [st |-> "opened", rows |-> SortRows(task[d].rows)]]
  /\ files' = [files EXCEPT ![d] = Truncated]
  /\ UNCHANGED <<files0, startFiles, pc, runs, faults, log, existing,
                 new_ids, all_rows, findings, clean, reported, call, ret>>

\* rewrite_csv_task, lines 275-280: header and rows written; DictWriter raises
\* ValueError at the first row that carries a column outside fieldnames, and
\* what went out before stays in the file
TaskWrite(d) ==
  /\ pc = "rewrite"
  /\ task[d].st = "opened"
  /\ LET k == WrittenCount(FieldsOf(d), task[d].rows) IN
       /\ files' = [files EXCEPT ![d] = WrittenFile(FieldsOf(d), task[d].rows, k)]
       /\ task' = [task EXCEPT ![d].st =
                     IF k = Len(task[d].rows) THEN "done" ELSE "failed"]
  /\ UNCHANGED <<files0, startFiles, pc, runs, faults, log, existing,
                 new_ids, all_rows, findings, clean, reported, call, ret>>

MarkFault(d) == [log EXCEPT ![Len(log)].wfault = @ \cup {d}]

\* a storage fault before the target is open (open() raises): the task fails
\* and the file is as it was
TaskFaultBeforeOpen(d) ==
  /\ pc = "rewrite"
  /\ task[d].st = "queued"
  /\ faults < MaxFaults
  /\ faults' = faults + 1
  /\ log' = MarkFault(d)
  /\ task' = [task EXCEPT ![d].st = "failed"]
  /\ UNCHANGED <<files, files0, startFiles, pc, runs, existing,
                 new_ids, all_rows, findings, clean, reported, call, ret>>

\* a storage fault after the target was opened (a write raises): the task
\* fails and the file keeps nothing, or the header and the rows that went out
TaskFaultAfterOpen(d) ==
  /\ pc = "rewrite"
  /\ task[d].st = "opened"
  /\ faults < MaxFaults
  /\ faults' = faults + 1
  /\ log' = MarkFault(d)
  /\ task' = [task EXCEPT ![d].st = "failed"]
  /\ \/ files' = files
     \/ \E k \in 0..WrittenCount(FieldsOf(d), task[d].rows) :
          /\ k < Len(task[d].rows)
          /\ files' = [files EXCEPT ![d] = WrittenFile(FieldsOf(d), task[d].rows, k)]
  /\ UNCHANGED <<files0, startFiles, pc, runs, existing,
                 new_ids, all_rows, findings, clean, reported, call, ret>>

\* pool.map returns or raises (line 289), the exception is printed (291-292),
\* then the chunked export of the caller's two lists (339-340) and the
\* summary: the run is over
Finish ==
  /\ pc = "rewrite"
  /\ AllFinished(task)
  /\ reported' = (\E d \in Datasets : task[d].st = "failed")
  /\ clean' = [d \in Datasets |->
                 write_clean_csv(CleanFieldsOf(d), all_rows[d], CHUNK_SIZE)]
  /\ runs' = runs + 1
  /\ pc' = "idle"
  /\ UNCHANGED <<files, files0, startFiles, faults, log, existing,
                 new_ids, all_rows, findings, task, call, ret>>

Next ==
  \/ \E n \in 0..MaxAdd, of \in SUBSET Datasets :
       \E people \in [1..n -> GenPeople] : Begin(n, of, people)
  \/ \E d \in Datasets : TaskOpen(d)
  \/ \E d \in Datasets : TaskWrite(d)
  \/ \E d \in Datasets : TaskFaultBeforeOpen(d)
  \/ \E d \in Datasets : TaskFaultAfterOpen(d)
  \/ Finish

Spec == Init /\ [][Next]_vars

\* the pipeline with no storage fault injected
NextNoFault ==
  \/ \E n \in 0..MaxAdd : \E people \in [1..n -> GenPeople] : Begin(n, {}, people)
  \/ \E d \in Datasets : TaskOpen(d)
  \/ \E d \in Datasets : TaskWrite(d)
  \/ Finish

SpecNoFault == Init /\ [][NextNoFault]_vars

\* ================================================================ claims
StrictlyIncreasing(s) == \A i \in 1..(Len(s) - 1) : s[i] < s[i + 1]
Elems(s) == {s[i] : i \in 1..Len(s)}

\* C1: for every n >= 0 and every set S of integers, find_new_ids(n, S)
\* returns exactly n integers, strictly increasing, none of them in S.
C1_ExactlyNFreshIncreasing ==
  (call.op = "find_new_ids" /\ ret.done) =>
    /\ Len(ret.ids) = call.n
    /\ StrictlyIncreasing(ret.ids)
    /\ Elems(ret.ids) \cap call.ids = {}

\* a set holding a negative number and a gap, more requested than gaps
C1_Witness ==
  /\ call.op = "find_new_ids" /\ ret.done
  /\ call.n = 2 /\ call.ids = {0 - 1, 1, 3}
  /\ ret.ids = <<2, 4>>

\* the n smallest positive integers outside S, as a set
SmallestFree(n, S) ==
  {i \in 1..(Max(S) + n) :
     i \notin S /\ Cardinality({j \in 1..i : j \notin S}) <= n}

\* C2: for every n >= 0 and every non-empty set S of positive integers the
\* result of find_new_ids is the n smallest positive integers not in S, in
\* ascending order (gaps first, then max(S)+1, max(S)+2, ...).
C2_GapPreferring ==
  (/\ call.op = "find_new_ids" /\ ret.done
   /\ call.ids # {} /\ \A x \in call.ids : x >= 1) =>
    /\ ret.ids = Ascending(SmallestFree(call.n, call.ids))
    /\ \A i \in 1..Len(ret.ids) :
         ret.ids[i] > Max(call.ids) =>
           /\ \A g \in 1..Max(call.ids) : g \notin call.ids => g \in Elems(ret.ids)
           /\ \A v \in (Max(call.ids) + 1)..ret.ids[i] : v \in Elems(ret.ids)

\* two gaps below the maximum, one of them left unused
C2_Witness ==
  /\ call.op = "find_new_ids" /\ ret.done
  /\ call.n = 1 /\ call.ids = {2, 4}
  /\ ret.ids = <<1>>

\* --- validator
RowIds(rows) == {IntOf(rows[i]["ID"]) : i \in 1..Len(rows)}
Count(s, P(_)) == Cardinality({i \in 1..Len(s) : P(s[i])})
IsMissing(f, i) == f.Field = "ID" /\ f.ID = i
MissingCount(found, i) == LET P(f) == IsMissing(f, i) IN Count(found, P)
Complete(row) == {"Name", "Email"} \subseteq DOMAIN row
CompleteIds(rows) ==
  {IntOf(rows[i]["ID"]) : i \in {j \in 1..Len(rows) : Complete(rows[j])}}
CheckIdSpace == RowIds(call.user_rows) \cup RowIds(call.account_rows)

\* C6 as stated: a missing-counterpart finding for i exactly when some
\* Primary row has identifier i and no Secondary row has it, one per
\* identifier.
C6_AsStated ==
  (call.op = "check_data_integrity" /\ ret.done) =>
    \A i \in CheckIdSpace :
      MissingCount(ret.inconsistencies, i) =
        IF i \in RowIds(call.user_rows) /\ i \notin RowIds(call.account_rows)
        THEN 1 ELSE 0

\* C6 amended: a missing-counterpart finding for i exactly when some Primary
\* row carrying both Name and Email has identifier i and no Secondary row
\* carrying both Name and Email has it; exactly one finding per such
\* identifier; an identifier present only in Secondary produces none.
C6_MissingCounterpart ==
  (call.op = "check_data_integrity" /\ ret.done) =>
    /\ \A i \in CheckIdSpace :
         MissingCount(ret.inconsistencies, i) =
           IF /\ i \in CompleteIds(call.user_rows)
              /\ i \notin CompleteIds(call.account_rows)
           THEN 1 ELSE 0
    /\ \A i \in RowIds(call.account_rows) \ RowIds(call.user_rows) :
         \A k \in 1..Len(ret.inconsistencies) : ret.inconsistencies[k].ID # i

\* identifier 5 twice in Primary and matched, identifier 7 unmatched
C6_Witness ==
  /\ call.op = "check_data_integrity" /\ ret.done
  /\ Len(call.user_rows) = 2 /\ Len(call.account_rows) = 1
  /\ \A i \in 1..2 : Complete(call.user_rows[i])
  /\ Complete(call.account_rows[1])
  /\ RowIds(call.user_rows) = {5, 7}
  /\ RowIds(call.account_rows) = {5}
  /\ MissingCount(ret.inconsistencies, 7) = 1
  /\ MissingCount(ret.inconsistencies, 5) = 0

\* the last Primary row with identifier i
LastUser(i) ==
  call.user_rows[Max({j \in 1..Len(call.user_rows) :
                        IntOf(call.user_rows[j]["ID"]) = i})]
\* the Secondary rows with identifier i that differ from it on field fld
Differing(i, fld) ==
  {j \in 1..Len(call.account_rows) :
     /\ IntOf(call.account_rows[j]["ID"]) = i
     /\ call.account_rows[j][fld] # LastUser(i)[fld]}
MismatchCount(found, i, fld) ==
  LET P(f) == f.ID = i /\ f.Field = fld IN Count(found, P)

\* C10: for every Secondary row whose identifier occurs in Primary and each
\* shared field on which it differs from the last Primary row with that
\* identifier, a mismatch finding for that identifier and field is emitted
\* (one per differing row), and none for a field on which they agree; also
\* when an identifier occurs more than once in a dataset.  Stated for rows
\* that carry both shared fields.
C10_EveryMismatchReported ==
  (/\ call.op = "check_data_integrity" /\ ret.done
   /\ \A j \in 1..Len(call.user_rows) : Complete(call.user_rows[j])
   /\ \A j \in 1..Len(call.account_rows) : Complete(call.account_rows[j])) =>
    \A i \in RowIds(call.user_rows) \cap RowIds(call.account_rows) :
      \A fld \in {"Name", "Email"} :
        /\ Differing(i, fld) # {} =>
             MismatchCount(ret.inconsistencies, i, fld) >= 1
        /\ MismatchCount(ret.inconsistencies, i, fld)
             <= Cardinality(Differing(i, fld))

\* --- reader
\* a storage-level error ends the read: open() fails, or a line cannot be
\* decoded, or the row loop raises on a line
ReadErrored(f, open_fails) ==
  /\ f.exists
  /\ \/ open_fails
     \/ \E i \in 1..Len(f.lines) :
          /\ ~BlankLine(f.lines[i])
          /\ LineUndecodable(f.lines[i]) \/ RowRaises(f.header, f.lines[i])

\* C9: when read_all_data meets a read error at any point (at open, or after
\* rows were parsed) the dataset is treated as having no existing data: the
\* returned rows and identifier set are empty.
C9_ErrorMeansNoData ==
  (/\ call.op = "read_all_data" /\ ret.done
   /\ ReadErrored(call.f, call.open_fails)) =>
    ret.out.rows = <<>> /\ ret.out.ids = {}

\* --- pipeline
\* the identifier cell of a raw line, if the line has one
HasIdCell(f, i) ==
  /\ ~BlankLine(f.lines[i])
  /\ "ID" \in KeysOf(f.header)
  /\ LastIdx(f.header, "ID") <= Len(f.lines[i])
IdCell(f, i) == Strip(f.lines[i][LastIdx(f.header, "ID")])
\* the lines of a file that are valid rows: the identifier parses
ValidLines(f) == {i \in 1..Len(f.lines) : HasIdCell(f, i) /\ IsInt(IdCell(f, i))}
FileIds(f) == {IntOf(IdCell(f, i)) : i \in ValidLines(f)}
NoDuplicateIds(f) ==
  \A i, j \in ValidLines(f) : i # j => IntOf(IdCell(f, i)) # IntOf(IdCell(f, j))
Distinct(s) == \A i, j \in 1..Len(s) : i # j => s[i] # s[j]
RunStarted == Len(log) >= 1
RunOver == pc = "idle" /\ runs >= 1
NoFault(r) == log[r].rfault = {} /\ log[r].wfault = {}

Rank(rows, i) ==
  Cardinality({j \in 1..Len(rows) :
     \/ RowKey(rows[j]) < RowKey(rows[i])
     \/ RowKey(rows[j]) = RowKey(rows[i]) /\ j <= i})

\* the file holds the header and exactly the given rows, by ascending
\* identifier, equal identifiers in input order
HoldsSorted(f, fieldnames, rows) ==
  /\ f.exists
  /\ f.header = fieldnames
  /\ Len(f.lines) = Len(rows)
  /\ \A i \in 1..Len(rows) : f.lines[Rank(rows, i)] = RenderRow(fieldnames, rows[i])

\* C4: after a pipeline run each dataset file holds the header followed by
\* exactly the existing valid rows plus the new rows, by ascending integer
\* identifier, equal identifiers in input order, for every file content the
\* reader accepts (stated for runs in which no storage fault was injected).
C4_RewriteHoldsAllRows ==
  (RunOver /\ NoFault(runs)) =>
    \A d \in Datasets : HoldsSorted(files[d], FieldsOf(d), all_rows[d])

\* C5: after a pipeline run every part of the chunked export is sorted by
\* ascending identifier, every identifier of part k is <= every identifier
\* of part k+1, parts are contiguous slices of at most 100 rows numbered
\* from 1 (stated for runs in which no storage fault was injected).
C5_ChunksFollowSortedOrder ==
  (RunOver /\ NoFault(runs)) =>
    \A d \in Datasets :
      /\ \A p \in 1..Len(clean[d]) :
           /\ clean[d][p].file_index = p
           /\ Len(clean[d][p].rows) <= CHUNK_SIZE
           /\ \A i, j \in 1..Len(clean[d][p].rows) :
                i < j => RowKey(clean[d][p].rows[i]) <= RowKey(clean[d][p].rows[j])
      /\ \A p \in 1..(Len(clean[d]) - 1) :
           \A i \in 1..Len(clean[d][p].rows), j \in 1..Len(clean[d][p + 1].rows) :
             RowKey(clean[d][p].rows[i]) <= RowKey(clean[d][p + 1].rows[j])

TwoQuietRuns ==
  /\ pc = "idle" /\ runs >= 2
  /\ log[runs].n = 0 /\ log[runs - 1].n = 0
  /\ NoFault(runs) /\ NoFault(runs - 1)

\* C7: after two runs in a row with zero new records both files are exactly
\* what the first of the two runs wrote, whatever the initial contents; the
\* second run allocates no identifier and reports no invalid row.
C7_SecondRunChangesNothing ==
  TwoQuietRuns =>
    /\ files = startFiles
    /\ new_ids = <<>>
    /\ \A d \in Datasets : existing[d].invalid = <<>>

\* the initial primary file was out of order, with an invalid row in one of
\* the files, and the first run rewrote it
C7_Witness ==
  /\ TwoQuietRuns
  /\ files0[USER_FILE].header = USER_FIELDS
  /\ Len(files0[USER_FILE].lines) = 2
  /\ ValidLines(files0[USER_FILE]) = {1, 2}
  /\ IntOf(IdCell(files0[USER_FILE], 1)) > IntOf(IdCell(files0[USER_FILE], 2))
  /\ Len(files[USER_FILE].lines) = 2
  /\ files[USER_FILE] # files0[USER_FILE]

\* the rows of task d all fit the declared fields
Writable(d) == \A i \in 1..Len(all_rows[d]) : ~HasExtras(FieldsOf(d), all_rows[d][i])

\* C8: the pipeline gets past the rewrite step only when both tasks have
\* finished; a task fails only on its own account (a fault on its own target
\* or a row of its own it cannot write), whatever happened to the other, and
\* a task that did not fail left its target holding the full sorted row set;
\* a failure is reported and the run still completes.
C8_TasksIsolated ==
  RunOver =>
    /\ \A d \in Datasets : task[d].st \in {"done", "failed"}
    /\ \A d \in Datasets :
         task[d].st = "failed" => (d \in log[runs].wfault \/ ~Writable(d))
    /\ \A d \in Datasets :
         (d \notin log[runs].wfault /\ Writable(d)) =>
           /\ task[d].st = "done"
           /\ HoldsSorted(files[d], FieldsOf(d), all_rows[d])
    /\ reported = (\E d \in Datasets : task[d].st = "failed")

\* the primary task failed after opening its target, the secondary task
\* wrote two rows
C8_Witness ==
  /\ RunOver
  /\ task[USER_FILE].st = "failed"
  /\ USER_FILE \in log[runs].wfault
  /\ files[USER_FILE] # startFiles[USER_FILE]
  /\ task[ACCOUNT_FILE].st = "done"
  /\ Len(files[ACCOUNT_FILE].lines) = 2
  /\ reported

====
